---- MODULE Spec2Model ----
(***************************************************************************)
(* Model of app/config.py: the configuration records, Config.__init__,    *)
(* Config.validate and the module-level `config` instance, together with  *)
(* the process environment (os.environ) they read.                        *)
(***************************************************************************)
EXTENDS Integers, Sequences, FiniteSets, TLC

(* ---------------------------------------------------------------------- *)
(* Bounds                                                                 *)
(* ---------------------------------------------------------------------- *)
MaxEnvChanges == 1
MaxCalls == 2

(* ---------------------------------------------------------------------- *)
(* State                                                                  *)
(* ---------------------------------------------------------------------- *)
VARIABLES
    environ,        \* os.environ
    pc,             \* "start" before app.config is imported, then "loaded"
    device_default, \* the class attribute ModelConfig.device (None before import)
    instances,      \* the Config objects: "config" is the module global,
                    \* "other" one built by a later call of Config()
    stdout,         \* the lines printed so far
    ret,            \* per instance, what its latest validate() call returned
    first,          \* per instance, what its first validate() call returned
    env_at,         \* per instance, os.environ when its __init__ ran
    changes,        \* number of changes made to os.environ
    changed_at,     \* per instance, `changes` at its latest validate() call
    calls           \* number of validate() calls made

vars == << environ, pc, device_default, instances, stdout, ret, first, env_at,
           changes, changed_at, calls >>

(* ---------------------------------------------------------------------- *)
(* The process environment                                                *)
(* ---------------------------------------------------------------------- *)
\* What os.environ.get(name) returns for a variable that is not set.
None == "<None>"

MandatoryVars ==
    { "AZURE_SEARCH_ENDPOINT", "AZURE_SEARCH_API_KEY",
      "AZURE_DOC_INTELLIGENCE_ENDPOINT", "AZURE_DOC_INTELLIGENCE_API_KEY",
      "AZURE_OPENAI_ENDPOINT", "AZURE_OPENAI_API_KEY" }

OptionalVars == { "AZURE_OPENAI_MODEL", "MODEL_CHOICE", "CUDA_AVAILABLE" }

Vars == MandatoryVars \cup OptionalVars

\* The values a variable takes in the model (None: the variable is unset).
ValuesOf(name) ==
    CASE name = "MODEL_CHOICE"       -> { None, "", "florence2", "phi3-vision", "gpt4v" }
      [] name = "CUDA_AVAILABLE"     -> { None, "", "1", "0" }
      [] name = "AZURE_OPENAI_MODEL" -> { None, "", "gpt-4.1", "gpt-4o" }
      [] OTHER                       -> { None, "", "v" }

Environments ==
    [ AZURE_SEARCH_ENDPOINT           : ValuesOf("AZURE_SEARCH_ENDPOINT"),
      AZURE_SEARCH_API_KEY            : ValuesOf("AZURE_SEARCH_API_KEY"),
      AZURE_DOC_INTELLIGENCE_ENDPOINT : ValuesOf("AZURE_DOC_INTELLIGENCE_ENDPOINT"),
      AZURE_DOC_INTELLIGENCE_API_KEY  : ValuesOf("AZURE_DOC_INTELLIGENCE_API_KEY"),
      AZURE_OPENAI_ENDPOINT           : ValuesOf("AZURE_OPENAI_ENDPOINT"),
      AZURE_OPENAI_API_KEY            : ValuesOf("AZURE_OPENAI_API_KEY"),
      AZURE_OPENAI_MODEL              : ValuesOf("AZURE_OPENAI_MODEL"),
      MODEL_CHOICE                    : ValuesOf("MODEL_CHOICE"),
      CUDA_AVAILABLE                  : ValuesOf("CUDA_AVAILABLE") ]

EmptyEnvironment == [ name \in Vars |-> None ]

\* Contents of the .env file load_dotenv() finds (None: key not in the file).
DotenvFiles ==
    { EmptyEnvironment,
      [ EmptyEnvironment EXCEPT !["AZURE_OPENAI_API_KEY"] = "v" ],
      [ EmptyEnvironment EXCEPT !["CUDA_AVAILABLE"] = "1" ],
      [ EmptyEnvironment EXCEPT !["AZURE_OPENAI_API_KEY"] = "v",
                                !["CUDA_AVAILABLE"] = "1" ] }

\* load_dotenv(): keys of the file are added, variables already set are kept.
load_dotenv(env, file) ==
    [ name \in Vars |-> IF env[name] = None THEN file[name] ELSE env[name] ]

\* os.getenv(name) or default: an empty value also yields the default.
getenv_or_default(env, name, default) ==
    IF env[name] = None \/ env[name] = "" THEN default ELSE env[name]

\* os.getenv(name): the default is dropped, an unset variable yields None.
getenv_no_default(env, name, default) ==
    env[name]

\* os.getenv(name, default)
getenv(env, name, default) ==
    IF env[name] = None THEN default ELSE env[name]

\* Python truth value of an Optional[str]
truthy(value) == value # None /\ value # ""

(* ---------------------------------------------------------------------- *)
(* The configuration records                                              *)
(* ---------------------------------------------------------------------- *)
\* A dataclass field: the keyword argument when passed, else the default.
field(kw, name, default) ==
    IF name \in DOMAIN kw THEN kw[name] ELSE default

AzureAISearchConfig(kw) ==
    [ endpoint   |-> kw.endpoint,
      api_key    |-> kw.api_key,
      index_name |-> field(kw, "index_name", "rag-index") ]

AzureDocIntelligenceConfig(kw) ==
    [ endpoint |-> kw.endpoint,
      api_key  |-> kw.api_key ]

AzureOpenAIConfig(kw) ==
    [ endpoint        |-> kw.endpoint,
      api_key         |-> kw.api_key,
      deployment_name |-> field(kw, "deployment_name", "gpt-4o"),
      api_version     |-> field(kw, "api_version", "2024-02-01") ]

\* The default of ModelConfig.device, evaluated when the class body runs.
ModelConfig_device(env) ==
    IF truthy(env["CUDA_AVAILABLE"]) THEN "cuda" ELSE "cpu"

ModelConfig(kw, device) ==
    [ model_choice |-> field(kw, "model_choice", "florence2"),
      device       |-> field(kw, "device", device),
      batch_size   |-> field(kw, "batch_size", 1) ]

\* SystemConfig with manifest_dir given the path of patch_matrix_dir.
SystemConfig_same_dir ==
    [ temp_dir          |-> "./temp",
      patch_matrix_dir  |-> "./patch_matrices",
      manifest_dir      |-> "./patch_matrices",
      max_pages_per_doc |-> 100,
      default_k         |-> 10 ]

SystemConfig ==
    [ temp_dir          |-> "./temp",
      patch_matrix_dir  |-> "./patch_matrices",
      manifest_dir      |-> "./manifests",
      max_pages_per_doc |-> 100,
      default_k         |-> 10 ]

\* MODEL_CHOICE taken as it is, without the membership test.
model_choice_unchecked(model_choice_env) ==
    model_choice_env

\* The normalisation of MODEL_CHOICE in Config.__init__.
model_choice(model_choice_env) ==
    IF model_choice_env \notin { "florence2", "phi3-vision" }
    THEN "florence2" ELSE model_choice_env

\* Config.__init__ run in environment env, with the class default of device.
Config(env, device) ==
    [ ai_search |-> AzureAISearchConfig(
          [ endpoint |-> getenv(env, "AZURE_SEARCH_ENDPOINT", ""),
            api_key  |-> getenv(env, "AZURE_SEARCH_API_KEY", "") ]),
      doc_intelligence |-> AzureDocIntelligenceConfig(
          [ endpoint |-> getenv(env, "AZURE_DOC_INTELLIGENCE_ENDPOINT", ""),
            api_key  |-> getenv(env, "AZURE_DOC_INTELLIGENCE_API_KEY", "") ]),
      openai |-> AzureOpenAIConfig(
          [ endpoint        |-> getenv(env, "AZURE_OPENAI_ENDPOINT", ""),
            api_key         |-> getenv(env, "AZURE_OPENAI_API_KEY", ""),
            deployment_name |-> getenv(env, "AZURE_OPENAI_MODEL", "o4-mini") ]),
      model |-> ModelConfig(
          [ model_choice |-> model_choice(getenv(env, "MODEL_CHOICE", "florence2")) ],
          device),
      system |-> SystemConfig ]

(* ---------------------------------------------------------------------- *)
(* Config.validate                                                        *)
(* ---------------------------------------------------------------------- *)
\* required_fields without its last pair.
required_fields_short(self) ==
    << << self.ai_search.endpoint,        "AZURE_SEARCH_ENDPOINT" >>,
       << self.ai_search.api_key,         "AZURE_SEARCH_API_KEY" >>,
       << self.doc_intelligence.endpoint, "AZURE_DOC_INTELLIGENCE_ENDPOINT" >>,
       << self.doc_intelligence.api_key,  "AZURE_DOC_INTELLIGENCE_API_KEY" >>,
       << self.openai.endpoint,           "AZURE_OPENAI_ENDPOINT" >> >>

\* required_fields with the names of the two search pairs exchanged.
required_fields_swapped(self) ==
    << << self.ai_search.endpoint,        "AZURE_SEARCH_API_KEY" >>,
       << self.ai_search.api_key,         "AZURE_SEARCH_ENDPOINT" >>,
       << self.doc_intelligence.endpoint, "AZURE_DOC_INTELLIGENCE_ENDPOINT" >>,
       << self.doc_intelligence.api_key,  "AZURE_DOC_INTELLIGENCE_API_KEY" >>,
       << self.openai.endpoint,           "AZURE_OPENAI_ENDPOINT" >>,
       << self.openai.api_key,            "AZURE_OPENAI_API_KEY" >> >>

\* required_fields with the deployment name checked as well.
required_fields_deployment(self) ==
    << << self.ai_search.endpoint,        "AZURE_SEARCH_ENDPOINT" >>,
       << self.ai_search.api_key,         "AZURE_SEARCH_API_KEY" >>,
       << self.doc_intelligence.endpoint, "AZURE_DOC_INTELLIGENCE_ENDPOINT" >>,
       << self.doc_intelligence.api_key,  "AZURE_DOC_INTELLIGENCE_API_KEY" >>,
       << self.openai.endpoint,           "AZURE_OPENAI_ENDPOINT" >>,
       << self.openai.api_key,            "AZURE_OPENAI_API_KEY" >>,
       << self.openai.deployment_name,    "AZURE_OPENAI_MODEL" >> >>

required_fields(self) ==
    << << self.ai_search.endpoint,        "AZURE_SEARCH_ENDPOINT" >>,
       << self.ai_search.api_key,         "AZURE_SEARCH_API_KEY" >>,
       << self.doc_intelligence.endpoint, "AZURE_DOC_INTELLIGENCE_ENDPOINT" >>,
       << self.doc_intelligence.api_key,  "AZURE_DOC_INTELLIGENCE_API_KEY" >>,
       << self.openai.endpoint,           "AZURE_OPENAI_ENDPOINT" >>,
       << self.openai.api_key,            "AZURE_OPENAI_API_KEY" >> >>

\* The loop over required_fields: the names whose value is falsy, appended
\* in iteration order.
RECURSIVE missing_fields(_)
missing_fields(pairs) ==
    IF pairs = << >> THEN << >>
    ELSE LET value      == Head(pairs)[1]
             field_name == Head(pairs)[2]
         IN  (IF ~truthy(value) THEN << field_name >> ELSE << >>)
             \o missing_fields(Tail(pairs))

\* sep.join(names)
RECURSIVE join(_, _)
join(sep, names) ==
    IF names = << >> THEN ""
    ELSE IF Len(names) = 1 THEN names[1]
    ELSE names[1] \o sep \o join(sep, Tail(names))

\* validate() reading the environment again instead of the stored fields.
validate_environ(self) ==
    LET missing == missing_fields(required_fields(Config(environ, device_default)))
    IN  IF missing # << >>
        THEN [ result  |-> FALSE,
               missing |-> missing,
               out     |-> << "Missing required environment variables: "
                              \o join(", ", missing) >> ]
        ELSE [ result  |-> TRUE,
               missing |-> missing,
               out     |-> << >> ]

\* validate() that reports missing variables once per process and accepts
\* the configuration on later calls.
validate_report_once(self) ==
    LET missing == missing_fields(required_fields(self))
    IN  IF missing # << >> /\ stdout = << >>
        THEN [ result  |-> FALSE,
               missing |-> missing,
               out     |-> << "Missing required environment variables: "
                              \o join(", ", missing) >> ]
        ELSE [ result  |-> TRUE,
               missing |-> << >>,
               out     |-> << >> ]

\* validate(): the value returned, the local list, and the lines printed.
validate(self) ==
    LET missing == missing_fields(required_fields(self))
    IN  IF missing # << >>
        THEN [ result  |-> FALSE,
               missing |-> missing,
               out     |-> << "Missing required environment variables: "
                              \o join(", ", missing) >> ]
        ELSE [ result  |-> TRUE,
               missing |-> missing,
               out     |-> << >> ]

(* ---------------------------------------------------------------------- *)
(* Module import, construction, environment changes and validate() calls  *)
(* ---------------------------------------------------------------------- *)
Ids == { "config", "other" }

Empty == [ i \in {} |-> None ]

Bind(f, i, v) == [ j \in DOMAIN f \cup { i } |-> IF j = i THEN v ELSE f[j] ]

InitCommon ==
    /\ pc = "start"
    /\ device_default = None
    /\ instances = Empty
    /\ stdout = << >>
    /\ ret = Empty
    /\ first = Empty
    /\ env_at = Empty
    /\ changes = 0
    /\ changed_at = Empty
    /\ calls = 0

\* Importing app.config: load_dotenv(), the class bodies, config = Config().
LoadModule ==
    /\ pc = "start"
    /\ \E file \in DotenvFiles :
         LET env == load_dotenv(environ, file)
             dev == ModelConfig_device(env)
         IN  /\ environ' = env
             /\ device_default' = dev
             /\ instances' = Bind(instances, "config", Config(env, dev))
             /\ env_at' = Bind(env_at, "config", env)
    /\ pc' = "loaded"
    /\ UNCHANGED << stdout, ret, first, changes, changed_at, calls >>

\* A caller runs Config() again.
NewConfig ==
    /\ pc = "loaded"
    /\ "other" \notin DOMAIN instances
    /\ instances' = Bind(instances, "other", Config(environ, device_default))
    /\ env_at' = Bind(env_at, "other", environ)
    /\ UNCHANGED << environ, pc, device_default, stdout, ret, first, changes,
                    changed_at, calls >>

\* os.environ[name] = value
SetEnv ==
    /\ changes < MaxEnvChanges
    /\ \E name \in Vars : \E value \in ValuesOf(name) \ { None } :
         /\ environ[name] # value
         /\ environ' = [ environ EXCEPT ![name] = value ]
    /\ changes' = changes + 1
    /\ UNCHANGED << pc, device_default, instances, stdout, ret, first, env_at,
                    changed_at, calls >>

\* del os.environ[name]
UnsetEnv ==
    /\ changes < MaxEnvChanges
    /\ \E name \in Vars :
         /\ environ[name] # None
         /\ environ' = [ environ EXCEPT ![name] = None ]
    /\ changes' = changes + 1
    /\ UNCHANGED << pc, device_default, instances, stdout, ret, first, env_at,
                    changed_at, calls >>

\* A caller runs validate() on one of the instances.
Validate(i) ==
    /\ i \in DOMAIN instances
    /\ calls < MaxCalls
    /\ LET r == validate(instances[i])
       IN  /\ stdout' = stdout \o r.out
           /\ ret' = Bind(ret, i, r)
           /\ first' = IF i \in DOMAIN first THEN first ELSE Bind(first, i, r)
    /\ changed_at' = Bind(changed_at, i, changes)
    /\ calls' = calls + 1
    /\ UNCHANGED << environ, pc, device_default, instances, env_at, changes >>

\* One process: any start environment, import, validate() on `config`.
Init ==
    /\ environ \in Environments
    /\ InitCommon

Next ==
    \/ LoadModule
    \/ Validate("config")

Spec == Init /\ [][Next]_vars

\* The environments a long-running process starts from in SpecLife.
StartEnvironments ==
    { env \in Environments :
        /\ \A name \in MandatoryVars : env[name] \in { None, "v" }
        /\ \A name \in MandatoryVars \ { "AZURE_OPENAI_ENDPOINT", "AZURE_OPENAI_API_KEY" } :
              env[name] = env["AZURE_SEARCH_ENDPOINT"]
        /\ env["AZURE_OPENAI_MODEL"] = None
        /\ env["MODEL_CHOICE"] = None
        /\ env["CUDA_AVAILABLE"] \in { None, "1" } }

\* A process that also changes os.environ and builds a second instance.
InitLife ==
    /\ environ \in StartEnvironments
    /\ InitCommon

NextLife ==
    \/ LoadModule
    \/ SetEnv
    \/ UnsetEnv
    \/ NewConfig
    \/ \E i \in Ids : Validate(i)

SpecLife == InitLife /\ [][NextLife]_vars

(* ---------------------------------------------------------------------- *)
(* Properties                                                             *)
(* ---------------------------------------------------------------------- *)
\* The order in which validate() declares its checks.
DeclaredOrder ==
    << "AZURE_SEARCH_ENDPOINT", "AZURE_SEARCH_API_KEY",
       "AZURE_DOC_INTELLIGENCE_ENDPOINT", "AZURE_DOC_INTELLIGENCE_API_KEY",
       "AZURE_OPENAI_ENDPOINT", "AZURE_OPENAI_API_KEY" >>

\* The field of an instance that a mandatory variable is stored in.
MandatoryField(self, name) ==
    CASE name = "AZURE_SEARCH_ENDPOINT"           -> self.ai_search.endpoint
      [] name = "AZURE_SEARCH_API_KEY"            -> self.ai_search.api_key
      [] name = "AZURE_DOC_INTELLIGENCE_ENDPOINT" -> self.doc_intelligence.endpoint
      [] name = "AZURE_DOC_INTELLIGENCE_API_KEY"  -> self.doc_intelligence.api_key
      [] name = "AZURE_OPENAI_ENDPOINT"           -> self.openai.endpoint
      [] name = "AZURE_OPENAI_API_KEY"            -> self.openai.api_key

\* A variable is missing in env when it is unset or set to the empty string.
Missing(env, name) == env[name] = None \/ env[name] = ""

AllPresent(env) == \A name \in MandatoryVars : ~Missing(env, name)

\* The missing mandatory variables of env, in declared order.
ExpectedMissing(env) ==
    SelectSeq(DeclaredOrder, LAMBDA name : Missing(env, name))

\* names[1], names[2], ... separated by a comma and a space.
CommaSeparated(names) ==
    LET RECURSIVE upto(_)
        upto(k) == IF k = 0 THEN ""
                   ELSE IF k = 1 THEN names[1]
                   ELSE upto(k - 1) \o ", " \o names[k]
    IN  upto(Len(names))

SameMandatory(env1, env2) == \A name \in MandatoryVars : env1[name] = env2[name]

\* C1: validate() returns true iff all six mandatory fields are non-empty,
\* which is the case iff none of the six variables was unset or set to the
\* empty string when the instance was constructed.
C1_ValidateIffAllPresent ==
    \A i \in DOMAIN ret :
        /\ ret[i].result = AllPresent(env_at[i])
        /\ ret[i].result =
              (\A name \in MandatoryVars : MandatoryField(instances[i], name) # "")
        /\ \A name \in MandatoryVars :
              \/ MandatoryField(instances[i], name) # ""
              \/ ret[i].result = FALSE

\* C1 happens: one variable unset, another set to "", validate() returned false.
C1_Witness ==
    /\ "config" \in DOMAIN ret
    /\ env_at["config"]["AZURE_SEARCH_API_KEY"] = None
    /\ env_at["config"]["AZURE_OPENAI_API_KEY"] = ""
    /\ \A name \in MandatoryVars \ { "AZURE_SEARCH_API_KEY", "AZURE_OPENAI_API_KEY" } :
          env_at["config"][name] = "v"
    /\ ret["config"].result = FALSE

\* C2: with N mandatory variables missing, a validate() call prints one
\* message if N > 0 and none if N = 0; the message lists exactly the N
\* missing names, once each, comma-separated, in declared order.
C2_DiagnosticListsMissing ==
    \A i \in DOMAIN ret :
        LET expected == ExpectedMissing(env_at[i])
            message  == "Missing required environment variables: "
                        \o CommaSeparated(expected)
        IN  /\ ret[i].missing = expected
            /\ ret[i].out = IF expected = << >> THEN << >> ELSE << message >>
            /\ stdout = IF expected = << >> THEN << >>
                        ELSE [ k \in 1..calls |-> message ]
            /\ (\A name \in Vars : env_at[i][name] = IF name = "AZURE_SEARCH_ENDPOINT"
                                                      THEN "v" ELSE None)
               => ret[i].out =
                    << "Missing required environment variables: AZURE_SEARCH_API_KEY, AZURE_DOC_INTELLIGENCE_ENDPOINT, AZURE_DOC_INTELLIGENCE_API_KEY, AZURE_OPENAI_ENDPOINT, AZURE_OPENAI_API_KEY" >>

\* C2 happens: three variables missing, not adjacent in the declared order.
C2_Witness ==
    /\ "config" \in DOMAIN ret
    /\ ExpectedMissing(env_at["config"]) =
          << "AZURE_SEARCH_ENDPOINT", "AZURE_DOC_INTELLIGENCE_API_KEY",
             "AZURE_OPENAI_ENDPOINT" >>
    /\ Len(stdout) = 2

\* C3: every instance has device "cuda" if CUDA_AVAILABLE is set to a
\* non-empty value when that instance is constructed, and "cpu" otherwise.
C3_DeviceAtConstruction ==
    \A i \in DOMAIN instances :
        instances[i].model.device =
            IF truthy(env_at[i]["CUDA_AVAILABLE"]) THEN "cuda" ELSE "cpu"

\* C4: model_choice is "phi3-vision" exactly when MODEL_CHOICE is the string
\* "phi3-vision" and "florence2" in every other case, and the import always
\* yields the instance.
C4_ModelChoiceTotal ==
    /\ pc = "loaded" => "config" \in DOMAIN instances
    /\ \A i \in DOMAIN instances :
          /\ instances[i].model.model_choice \in { "florence2", "phi3-vision" }
          /\ instances[i].model.model_choice = "phi3-vision"
                <=> env_at[i]["MODEL_CHOICE"] = "phi3-vision"

\* C4 happens: an unrecognised MODEL_CHOICE was normalised.
C4_Witness ==
    /\ "config" \in DOMAIN instances
    /\ env_at["config"]["MODEL_CHOICE"] = "gpt4v"
    /\ instances["config"].model.model_choice = "florence2"

\* The first half of C5: "o4-mini" when AZURE_OPENAI_MODEL is unset, the
\* value of the variable when it is set.
DeploymentNameFromEnv(i) ==
    instances[i].openai.deployment_name =
        IF env_at[i]["AZURE_OPENAI_MODEL"] = None THEN "o4-mini"
        ELSE env_at[i]["AZURE_OPENAI_MODEL"]

\* C5 as stated: deployment_name follows AZURE_OPENAI_MODEL with default
\* "o4-mini", and "gpt-4o" is never the value of an instance built by Config().
C5_Original ==
    \A i \in DOMAIN instances :
        /\ DeploymentNameFromEnv(i)
        /\ instances[i].openai.deployment_name # "gpt-4o"

\* C5 amended: deployment_name follows AZURE_OPENAI_MODEL with default
\* "o4-mini", and it is "gpt-4o" only when AZURE_OPENAI_MODEL is set to "gpt-4o".
C5_DeploymentName ==
    \A i \in DOMAIN instances :
        /\ DeploymentNameFromEnv(i)
        /\ instances[i].openai.deployment_name = "gpt-4o"
              => env_at[i]["AZURE_OPENAI_MODEL"] = "gpt-4o"

\* C5 happens: the variable was unset and the instance holds "o4-mini".
C5_Witness ==
    /\ "config" \in DOMAIN instances
    /\ env_at["config"]["AZURE_OPENAI_MODEL"] = None
    /\ instances["config"].openai.deployment_name = "o4-mini"

\* C6: once `config` exists no step changes any of its fields, whatever
\* happens to os.environ, and validate() on it keeps returning the result
\* fixed by the environment it was constructed in.
C6_LoadedOnce ==
    [][ "config" \in DOMAIN instances =>
          /\ "config" \in DOMAIN instances'
          /\ instances'["config"] = instances["config"]
          /\ env_at'["config"] = env_at["config"]
          /\ "config" \in DOMAIN ret' =>
                /\ ret'["config"].result = AllPresent(env_at["config"])
                /\ ret'["config"].missing = ExpectedMissing(env_at["config"])
      ]_vars

\* C6 happens: a mandatory variable changed after construction, so that the
\* environment now would give the other result, and validate() ran afterwards.
C6_Witness ==
    /\ "config" \in DOMAIN ret
    /\ changed_at["config"] > 0
    /\ AllPresent(environ) # AllPresent(env_at["config"])
    /\ instances["config"] = Config(env_at["config"], device_default)

\* C7: the import always yields an instance, every mandatory variable that
\* was unset is held as the empty string, validate() on any instance yields
\* a boolean, and the boolean returned is false exactly when it printed.
C7_NoErrorState ==
    /\ pc = "loaded" => "config" \in DOMAIN instances
    /\ \A i \in DOMAIN instances : \A name \in MandatoryVars :
          env_at[i][name] = None => MandatoryField(instances[i], name) = ""
    /\ \A i \in DOMAIN instances : validate(instances[i]).result \in BOOLEAN
    /\ \A i \in DOMAIN ret :
          /\ ret[i].result \in BOOLEAN
          /\ ret[i].result = FALSE <=> Len(ret[i].out) = 1
          /\ ret[i].result = TRUE <=> ret[i].out = << >>

\* C7 happens: nothing was set at all, and validate() returned false.
C7_Witness ==
    /\ "config" \in DOMAIN ret
    /\ \A name \in Vars : env_at["config"][name] = None
    /\ instances["config"].openai.api_key = ""
    /\ ret["config"].result = FALSE

\* C8: the fixed fields of every instance hold their literal defaults,
\* whatever the environment.
C8_FixedDefaults ==
    \A i \in DOMAIN instances :
        /\ instances[i].ai_search.index_name = "rag-index"
        /\ instances[i].openai.api_version = "2024-02-01"
        /\ instances[i].model.batch_size = 1
        /\ instances[i].system.temp_dir = "./temp"
        /\ instances[i].system.patch_matrix_dir = "./patch_matrices"
        /\ instances[i].system.manifest_dir = "./manifests"
        /\ instances[i].system.max_pages_per_doc = 100
        /\ instances[i].system.default_k = 10

\* C8 happens: an instance built with every variable set.
C8_Witness ==
    /\ "config" \in DOMAIN instances
    /\ \A name \in Vars : env_at["config"][name] # None
    /\ env_at["config"]["AZURE_OPENAI_MODEL"] = "gpt-4.1"

\* C9: a validate() call changes no field of any instance, and it returns
\* the boolean and the list of missing names that the first call on the
\* same instance returned.
C9_ValidateIsPureRead ==
    [][ calls' = calls + 1 =>
          /\ instances' = instances
          /\ \A i \in DOMAIN ret' :
                /\ ret'[i].result = first'[i].result
                /\ ret'[i].missing = first'[i].missing
      ]_vars

\* C9 happens: validate() ran on `config` before and after the environment
\* changed, with names missing.
C9_Witness ==
    /\ calls = 2
    /\ DOMAIN ret = { "config" }
    /\ changed_at["config"] > 0
    /\ ret["config"].result = FALSE
    /\ Len(stdout) = 2

\* C10: two instances built from environments that agree on the six
\* mandatory variables give the same validate() result and the same list
\* of missing names.
C10_OnlyMandatoryMatter ==
    \A i \in DOMAIN ret : \A j \in DOMAIN ret :
        SameMandatory(env_at[i], env_at[j]) =>
            /\ ret[i].result = ret[j].result
            /\ ret[i].missing = ret[j].missing

\* C10 happens: the two instances differ in AZURE_OPENAI_MODEL only, one of
\* them has an empty deployment name, and both validate() calls returned true.
C10_Witness ==
    /\ DOMAIN ret = Ids
    /\ SameMandatory(env_at["config"], env_at["other"])
    /\ env_at["config"]["AZURE_OPENAI_MODEL"] = None
    /\ env_at["other"]["AZURE_OPENAI_MODEL"] = ""
    /\ instances["other"].openai.deployment_name = ""
    /\ ret["config"].result = TRUE
    /\ ret["other"].result = TRUE

====
